---- MODULE Spec2Model ----
(***************************************************************************)
(* Collision Explorer: the convex hull builder (geometry.py), the segment  *)
(* intersection primitives (geometry.py) and the collision query engine    *)
(* of CollisionDetectorApp (app.py), as a state machine over the fields of *)
(* the application object.                                                 *)
(*                                                                         *)
(* Numbers.  A clicked point is a pair <<x, y>> of integers counted in     *)
(* grid units, Unit grid units to the scene pixel.  A computed point (an   *)
(* entry of self.collisions) is a triple <<xn, yn, d>> in lowest terms     *)
(* with d > 0, standing for (xn/d, yn/d) grid units.  A path parameter is  *)
(* a fraction <<n, d>> in lowest terms with d > 0.  A tolerance is the     *)
(* slider value, an integer number of tenths of a pixel.  Python's None is *)
(* the empty tuple None.  Arithmetic is exact.  timers counts the pending  *)
(* QTimer.singleShot(16, self._tick) callbacks.                            *)
(***************************************************************************)
EXTENDS Integers, Sequences, FiniteSets

VARIABLES points, hull, path_start, path_end, collisions,
          first_collision_t, hit_tol, mode, car_t, anim_running,
          _last_ts, stop_on_collision, timers

vars == <<points, hull, path_start, path_end, collisions,
          first_collision_t, hit_tol, mode, car_t, anim_running,
          _last_ts, stop_on_collision, timers>>

\* Python's None where a point or a float is expected
None == <<>>
\* Python's None where _point_in_convex_hull returns no verdict
NoVerdict == "None"
\* a value of time.perf_counter() held in _last_ts: the time that passes
\* between two readings of the clock is an input of the tick
Stamp == <<"perf_counter">>

(***************************************************************************)
(* Bounds of the model and constants of the program.                       *)
(***************************************************************************)
Unit == 2               \* grid units per scene pixel
MaxPoints == 4          \* obstacle clicks explored by SpecHull
HullGridW == 2          \* SpecHull clicks at the whole pixels x in 0..HullGridW
HullRows == 0..2        \* ... and y in HullRows

MaxObst == 3            \* obstacle points explored by SpecColl
PathGridN == 2          \* SpecColl path clicks at x, y in 0..PathGridN half pixels
TolStep == 3            \* SpecColl moves the slider to multiples of TolStep
TolCount == 3           \* ... up to TolStep * TolCount

MaxAppPoints == 3       \* obstacle clicks explored by Spec
MaxTimers == 2          \* pending tick callbacks explored by Spec

VerdictPad == 2         \* SpecVerdict clicks up to VerdictPad half pixels off the obstacles
VerdictTolStep == 5     \* SpecVerdict moves the slider to multiples of VerdictTolStep

SegGridW == 3           \* SpecSeg segment ends at the whole pixels x in 0..SegGridW
SegRows == 0..3         \* ... and y in SegRows

MaxHits == 2            \* length of the hit lists given to SpecFirstT
HitGridN == 2           \* SpecFirstT hits at (xn/d, yn/d), xn and yn in 0..HitGridN

SliderMin == 0          \* tolerance_slider.setMinimum(0)
SliderMax == 50         \* tolerance_slider.setMaximum(50)
SliderInit == 15        \* tolerance_slider.setValue(15), hit_tol = 1.5
DedupInv == 1000000     \* the 1e-6 of the duplicate test, as 1/DedupInv pixel
EPS == 0                \* eps = 1e-9 pixel: below the resolution of the grid

(***************************************************************************)
(* Integer helpers.                                                        *)
(***************************************************************************)
Abs(n) == IF n < 0 THEN -n ELSE n
Min(a, b) == IF a <= b THEN a ELSE b
Max(a, b) == IF a >= b THEN a ELSE b

RECURSIVE Gcd(_, _)
Gcd(a, b) == IF b = 0 THEN a ELSE Gcd(b, a % b)

\* the float n/d as a fraction in lowest terms, d # 0
Frac(n, d) ==
    LET g == Gcd(Abs(n), Abs(d))
        s == IF d < 0 THEN -1 ELSE 1
    IN  <<(s * n) \div g, (s * d) \div g>>

\* the float pair (xn/d, yn/d) in lowest terms, d # 0
RPoint(xn, yn, d) ==
    LET g == Gcd(Gcd(Abs(xn), Abs(yn)), Abs(d))
        s == IF d < 0 THEN -1 ELSE 1
    IN  <<(s * xn) \div g, (s * yn) \div g, (s * d) \div g>>

\* a clicked point as an entry of self.collisions (the same tuple of floats)
Lift(p) == <<p[1], p[2], 1>>

FracAdd(s, t) == Frac(s[1] * t[2] + t[1] * s[2], s[2] * t[2])
FracLt(s, t) == s[1] * t[2] < t[1] * s[2]
FracLe(s, t) == s[1] * t[2] <= t[1] * s[2]

Range(s) == {s[i] : i \in 1..Len(s)}
Reverse(s) == [i \in 1..Len(s) |-> s[Len(s) + 1 - i]]
ButLast(s) == SubSeq(s, 1, Len(s) - 1)

(***************************************************************************)
(* geometry.py                                                             *)
(***************************************************************************)
_cross(o, a, b) == (a[1] - o[1]) * (b[2] - o[2]) - (a[2] - o[2]) * (b[1] - o[1])

\* tuple order of Python: x first, then y
LexLess(p, q) == p[1] < q[1] \/ (p[1] = q[1] /\ p[2] < q[2])

\* sorted(set(points))
RECURSIVE SortSet(_)
SortSet(S) ==
    IF S = {} THEN <<>>
    ELSE LET m == CHOOSE p \in S : \A q \in S \ {p} : LexLess(p, q)
         IN  <<m>> \o SortSet(S \ {m})

sorted_set(pts) == SortSet(Range(pts))

\* PopWhile popping on a strict right turn only (cross < 0)
RECURSIVE PopWhile_strict(_, _)
PopWhile_strict(chain, p) ==
    IF Len(chain) >= 2 /\ _cross(chain[Len(chain) - 1], chain[Len(chain)], p) < 0
    THEN PopWhile_strict(ButLast(chain), p)
    ELSE chain

\* while len(chain) >= 2 and _cross(chain[-2], chain[-1], p) <= 0: chain.pop()
RECURSIVE PopWhile(_, _)
PopWhile(chain, p) ==
    IF Len(chain) >= 2 /\ _cross(chain[Len(chain) - 1], chain[Len(chain)], p) <= 0
    THEN PopWhile(ButLast(chain), p)
    ELSE chain

\* for p in pts[i..]: pop while non-left turn; chain.append(p)
RECURSIVE BuildChain(_, _, _)
BuildChain(pts, i, chain) ==
    IF i > Len(pts) THEN chain
    ELSE BuildChain(pts, i + 1, Append(PopWhile(chain, pts[i]), pts[i]))

\* HullOfSorted without the upper chain
HullOfSorted_lower_only(pts) == ButLast(BuildChain(pts, 1, <<>>))

HullOfSorted(pts) ==
    LET lower == BuildChain(pts, 1, <<>>)
        upper == BuildChain(Reverse(pts), 1, <<>>)
    IN  ButLast(lower) \o ButLast(upper)

convex_hull(pts_in) ==
    LET pts == sorted_set(pts_in)
    IN  IF Len(pts) <= 1 THEN pts ELSE HullOfSorted(pts)

\* c is an integer point; the 1e-9 slack is below the grid resolution
_on_segment(a, b, c) ==
    /\ Min(a[1], b[1]) <= c[1] /\ c[1] <= Max(a[1], b[1])
    /\ Min(a[2], b[2]) <= c[2] /\ c[2] <= Max(a[2], b[2])

\* _on_segment_r with the bounds of the box left out
_on_segment_r_strict(a, b, c) ==
    /\ Min(a[1], b[1]) * c[3] < c[1] /\ c[1] < Max(a[1], b[1]) * c[3]
    /\ Min(a[2], b[2]) * c[3] < c[2] /\ c[2] < Max(a[2], b[2]) * c[3]

\* the same test for a computed point c = <<xn, yn, d>>
_on_segment_r(a, b, c) ==
    /\ Min(a[1], b[1]) * c[3] <= c[1] /\ c[1] <= Max(a[1], b[1]) * c[3]
    /\ Min(a[2], b[2]) * c[3] <= c[2] /\ c[2] <= Max(a[2], b[2]) * c[3]

_orientation(a, b, c) == _cross(a, b, c)

\* abs(o) < 1e-9 for an orientation that is a multiple of 1/Unit^2
NearZero(o) == Abs(o) = 0

\* segments_intersect without the four touching tests
segments_intersect_proper(s1, s2) ==
    LET p1 == s1[1]  p2 == s1[2]  q1 == s2[1]  q2 == s2[2]
        o1 == _orientation(p1, p2, q1)
        o2 == _orientation(p1, p2, q2)
        o3 == _orientation(q1, q2, p1)
        o4 == _orientation(q1, q2, p2)
    IN  (o1 * o2 < 0) /\ (o3 * o4 < 0)

segments_intersect(s1, s2) ==
    LET p1 == s1[1]  p2 == s1[2]  q1 == s2[1]  q2 == s2[2]
        o1 == _orientation(p1, p2, q1)
        o2 == _orientation(p1, p2, q2)
        o3 == _orientation(q1, q2, p1)
        o4 == _orientation(q1, q2, p2)
    IN  IF (o1 * o2 < 0) /\ (o3 * o4 < 0) THEN TRUE
        ELSE IF NearZero(o1) /\ _on_segment(p1, p2, q1) THEN TRUE
        ELSE IF NearZero(o2) /\ _on_segment(p1, p2, q2) THEN TRUE
        ELSE IF NearZero(o3) /\ _on_segment(q1, q2, p1) THEN TRUE
        ELSE IF NearZero(o4) /\ _on_segment(q1, q2, p2) THEN TRUE
        ELSE FALSE

_det(a, b) == a[1] * b[2] - a[2] * b[1]

\* first element of a sequence that satisfies both bounding-box tests
RECURSIVE FirstCandidate(_, _, _)
FirstCandidate(cands, s1, s2) ==
    IF cands = <<>> THEN None
    ELSE IF _on_segment(s1[1], s1[2], Head(cands)) /\ _on_segment(s2[1], s2[2], Head(cands))
         THEN Lift(Head(cands))
         ELSE FirstCandidate(Tail(cands), s1, s2)

\* intersection_point without the segments_intersect guard
intersection_point_noguard(s1, s2) ==
    LET p1 == s1[1]  p2 == s1[2]  q1 == s2[1]  q2 == s2[2]
        xdiff == <<p1[1] - p2[1], q1[1] - q2[1]>>
        ydiff == <<p1[2] - p2[2], q1[2] - q2[2]>>
        div == _det(xdiff, ydiff)
        d == <<_det(p1, p2), _det(q1, q2)>>
        pt == RPoint(_det(d, xdiff), _det(d, ydiff), div)
    IN  IF NearZero(div) THEN FirstCandidate(<<p1, p2, q1, q2>>, s1, s2)
        ELSE IF _on_segment_r(p1, p2, pt) /\ _on_segment_r(q1, q2, pt) THEN pt
        ELSE None

intersection_point(s1, s2) ==
    IF ~segments_intersect(s1, s2) THEN None
    ELSE
    LET p1 == s1[1]  p2 == s1[2]  q1 == s2[1]  q2 == s2[2]
        xdiff == <<p1[1] - p2[1], q1[1] - q2[1]>>
        ydiff == <<p1[2] - p2[2], q1[2] - q2[2]>>
        div == _det(xdiff, ydiff)
        d == <<_det(p1, p2), _det(q1, q2)>>
        pt == RPoint(_det(d, xdiff), _det(d, ydiff), div)
    IN  IF NearZero(div) THEN FirstCandidate(<<p1, p2, q1, q2>>, s1, s2)
        ELSE IF _on_segment_r(p1, p2, pt) /\ _on_segment_r(q1, q2, pt) THEN pt
        ELSE None

\* hull_edges without the closing edge from the last vertex to the first
hull_edges_open(h) ==
    IF Len(h) < 2 THEN <<>>
    ELSE [i \in 1..(Len(h) - 1) |-> <<h[i], h[i + 1]>>]

\* hull_edges with the rule for 3 or more points applied from 2 points on
hull_edges_cyclic(h) ==
    IF Len(h) < 2 THEN <<>>
    ELSE [i \in 1..Len(h) |-> <<h[i], h[(i % Len(h)) + 1]>>]

\* hull_edges with one edge of no length for a hull of a single point
hull_edges_point(h) ==
    IF Len(h) < 1 THEN <<>>
    ELSE IF Len(h) = 1 THEN << <<h[1], h[1]>> >>
    ELSE IF Len(h) = 2 THEN << <<h[1], h[2]>> >>
    ELSE [i \in 1..Len(h) |-> <<h[i], h[(i % Len(h)) + 1]>>]

hull_edges(h) ==
    IF Len(h) < 2 THEN <<>>
    ELSE IF Len(h) = 2 THEN << <<h[1], h[2]>> >>
    ELSE [i \in 1..Len(h) |-> <<h[i], h[(i % Len(h)) + 1]>>]

(***************************************************************************)
(* app.py: geometric helpers of CollisionDetectorApp                       *)
(***************************************************************************)
\* WithinTol with the comparison turned round
WithinTol_far(n2, den, eps) == 100 * n2 >= (eps * Unit * den) * (eps * Unit * den)

\* hypot(..) <= eps, for a squared distance n2 / den^2 in grid units and a
\* tolerance of eps tenths of a pixel
WithinTol(n2, den, eps) == 100 * n2 <= (eps * Unit * den) * (eps * Unit * den)

\* _point_on_segment without the clamp of t: the distance to the whole line
_point_on_segment_noclamp(a, b, p, eps) ==
    LET abx == b[1] - a[1]
        aby == b[2] - a[2]
        apx == p[1] - a[1]
        apy == p[2] - a[2]
        ab2 == abx * abx + aby * aby
        tn == apx * abx + apy * aby
        nx == p[1] * ab2 - (a[1] * ab2 + tn * abx)
        ny == p[2] * ab2 - (a[2] * ab2 + tn * aby)
    IN  IF ab2 = 0 THEN WithinTol(apx * apx + apy * apy, 1, eps)
        ELSE WithinTol(nx * nx + ny * ny, ab2, eps)

_point_on_segment(a, b, p, eps) ==
    LET abx == b[1] - a[1]
        aby == b[2] - a[2]
        apx == p[1] - a[1]
        apy == p[2] - a[2]
        ab2 == abx * abx + aby * aby
        \* t = tn / ab2, clamped to [0, 1]
        tn == Max(0, Min(ab2, apx * abx + apy * aby))
        \* (px - qx, py - qy) = (nx, ny) / ab2
        nx == p[1] * ab2 - (a[1] * ab2 + tn * abx)
        ny == p[2] * ab2 - (a[2] * ab2 + tn * aby)
    IN  IF ab2 = 0 THEN WithinTol(apx * apx + apy * apy, 1, eps)
        ELSE WithinTol(nx * nx + ny * ny, ab2, eps)

_path_vector(ps, pe) ==
    IF ps = None \/ pe = None THEN <<0, 0>>
    ELSE <<pe[1] - ps[1], pe[2] - ps[2]>>

\* BestT keeping the largest t within [0, 1]
RECURSIVE BestT_max(_, _, _, _, _, _)
BestT_max(hits, i, ps, dv, L2, best) ==
    IF i > Len(hits) THEN best
    ELSE LET h == hits[i]
             t == Frac((h[1] - ps[1] * h[3]) * dv[1] + (h[2] - ps[2] * h[3]) * dv[2],
                       h[3] * L2)
         IN  IF FracLe(<<0, 1>>, t) /\ FracLe(t, <<1, 1>>)
             THEN BestT_max(hits, i + 1, ps, dv, L2,
                            IF best = None \/ FracLt(best, t) THEN t ELSE best)
             ELSE BestT_max(hits, i + 1, ps, dv, L2, best)

\* for hx, hy in hits[i..]: keep the smallest t within [0, 1]
RECURSIVE BestT(_, _, _, _, _, _)
BestT(hits, i, ps, dv, L2, best) ==
    IF i > Len(hits) THEN best
    ELSE LET h == hits[i]
             t == Frac((h[1] - ps[1] * h[3]) * dv[1] + (h[2] - ps[2] * h[3]) * dv[2],
                       h[3] * L2)
         IN  IF FracLe(<<0, 1>>, t) /\ FracLe(t, <<1, 1>>)
             THEN BestT(hits, i + 1, ps, dv, L2,
                        IF best = None \/ FracLt(t, best) THEN t ELSE best)
             ELSE BestT(hits, i + 1, ps, dv, L2, best)

_compute_first_collision_t(ps, pe, hits) ==
    IF ps = None \/ pe = None \/ hits = <<>> THEN None
    ELSE LET dv == _path_vector(ps, pe)
             L2 == dv[1] * dv[1] + dv[2] * dv[2]
         IN  \* L2 <= 1e-12 squared pixels: L2 = 0 on the grid
             IF L2 <= 0 THEN None
             ELSE BestT(hits, 1, ps, dv, L2, None)

App_cross(ax, ay, bx, by) == ax * by - ay * bx

\* HullLoop with the order of the two tests flipped: the side of the edge
\* first, the distance to the edge second
RECURSIVE HullLoop_flipped(_, _, _, _, _)
HullLoop_flipped(h, i, p, tol, on_boundary) ==
    IF i > Len(h) THEN (IF on_boundary THEN "on boundary" ELSE "inside")
    ELSE LET a == h[i]
             b == h[(i % Len(h)) + 1]
         IN  IF App_cross(b[1] - a[1], b[2] - a[2], p[1] - a[1], p[2] - a[2]) < -EPS
             THEN "outside"
             ELSE IF _point_on_segment(a, b, p, Max(EPS, tol))
                  THEN HullLoop_flipped(h, i + 1, p, tol, TRUE)
                  ELSE HullLoop_flipped(h, i + 1, p, tol, on_boundary)

\* the loop over the edges i..n of a hull of 3 or more vertices
RECURSIVE HullLoop(_, _, _, _, _)
HullLoop(h, i, p, tol, on_boundary) ==
    IF i > Len(h) THEN (IF on_boundary THEN "on boundary" ELSE "inside")
    ELSE LET a == h[i]
             b == h[(i % Len(h)) + 1]
         IN  IF _point_on_segment(a, b, p, Max(EPS, tol))
             THEN HullLoop(h, i + 1, p, tol, TRUE)
             ELSE IF App_cross(b[1] - a[1], b[2] - a[2], p[1] - a[1], p[2] - a[2]) < -EPS
                  THEN "outside"
                  ELSE HullLoop(h, i + 1, p, tol, on_boundary)

_point_in_convex_hull(h, p, tol) ==
    IF p = None \/ Len(h) = 0 THEN NoVerdict
    ELSE IF Len(h) = 1
         THEN (IF WithinTol((p[1] - h[1][1]) * (p[1] - h[1][1])
                            + (p[2] - h[1][2]) * (p[2] - h[1][2]), 1, EPS)
               THEN "on boundary" ELSE "outside")
    ELSE IF Len(h) = 2
         THEN (IF _point_on_segment(h[1], h[2], p, EPS) THEN "on boundary" ELSE "outside")
    ELSE HullLoop(h, 1, p, tol, FALSE)

(***************************************************************************)
(* app.py: _update_collisions                                              *)
(***************************************************************************)
\* abs(u - v) < 1e-6 pixel for coordinates u = un/ud, v = vn/vd grid units
CloseCoord(un, ud, vn, vd) ==
    Abs(un * vd - vn * ud) <= ((Unit * ud * vd - 1) \div DedupInv)

SamePoint(p, q) ==
    CloseCoord(p[1], p[3], q[1], q[3]) /\ CloseCoord(p[2], p[3], q[2], q[3])

\* AddIfNew without the duplicate test
AddIfNew_always(coll, pt) == Append(coll, pt)

\* if not any(... for q in self.collisions): self.collisions.append(pt)
AddIfNew(coll, pt) ==
    IF \E i \in 1..Len(coll) : SamePoint(pt, coll[i]) THEN coll ELSE Append(coll, pt)

\* for edge in hull_edges(self.hull)[i..]: intersections with the path
RECURSIVE EdgeHits(_, _, _, _)
EdgeHits(edges, i, path_segment, coll) ==
    IF i > Len(edges) THEN coll
    ELSE LET pt == intersection_point(path_segment, edges[i])
         IN  EdgeHits(edges, i + 1, path_segment,
                      IF pt # None THEN AddIfNew(coll, pt) ELSE coll)

\* for endpoint in (self.path_start, self.path_end), against one edge
EndpointPair(edge, ps, pe, tol, coll) ==
    LET c1 == IF _point_on_segment(edge[1], edge[2], ps, tol)
              THEN AddIfNew(coll, Lift(ps)) ELSE coll
    IN  IF _point_on_segment(edge[1], edge[2], pe, tol)
        THEN AddIfNew(c1, Lift(pe)) ELSE c1

RECURSIVE EndpointHits(_, _, _, _, _, _)
EndpointHits(edges, i, ps, pe, tol, coll) ==
    IF i > Len(edges) THEN coll
    ELSE EndpointHits(edges, i + 1, ps, pe, tol, EndpointPair(edges[i], ps, pe, tol, coll))

\* self.collisions after _update_collisions
Collisions(h, ps, pe, tol) ==
    IF ps = None \/ pe = None THEN <<>>
    ELSE EndpointHits(hull_edges(h), 1, ps, pe, tol,
                      EdgeHits(hull_edges(h), 1, <<ps, pe>>, <<>>))

\* self.first_collision_t after _update_collisions left the list coll
FirstT(ps, pe, coll) ==
    IF ps = None \/ pe = None THEN None
    ELSE _compute_first_collision_t(ps, pe, coll)

(***************************************************************************)
(* app.py: state after construction and the event handlers                 *)
(***************************************************************************)
Init ==
    /\ points = <<>>
    /\ hull = <<>>
    /\ path_start = None
    /\ path_end = None
    /\ collisions = <<>>
    /\ first_collision_t = None
    /\ hit_tol = SliderInit
    /\ mode = "obstacle"
    /\ car_t = <<0, 1>>
    /\ anim_running = FALSE
    /\ _last_ts = None
    /\ stop_on_collision = TRUE
    /\ timers = 0

_set_mode(m) ==
    /\ mode' = m
    /\ UNCHANGED <<points, hull, path_start, path_end, collisions,
                   first_collision_t, hit_tol, car_t, anim_running,
                   _last_ts, stop_on_collision, timers>>

\* a click at pt: obstacle mode appends and rebuilds the hull, start and end
\* mode set the endpoint and reset the animation; then _update_collisions
_handle_view_click(pt) ==
    /\ points' = IF mode = "obstacle" THEN Append(points, pt) ELSE points
    /\ hull' = IF mode = "obstacle" THEN convex_hull(Append(points, pt)) ELSE hull
    /\ path_start' = IF mode = "start" THEN pt ELSE path_start
    /\ path_end' = IF mode = "end" THEN pt ELSE path_end
    /\ anim_running' = IF mode \in {"start", "end"} THEN FALSE ELSE anim_running
    /\ _last_ts' = IF mode \in {"start", "end"} THEN None ELSE _last_ts
    /\ car_t' = IF mode \in {"start", "end"} THEN <<0, 1>> ELSE car_t
    /\ collisions' = Collisions(hull', path_start', path_end', hit_tol)
    /\ first_collision_t' = FirstT(path_start', path_end', collisions')
    /\ UNCHANGED <<hit_tol, mode, stop_on_collision, timers>>

\* _update_tolerance without the call of _update_collisions
_update_tolerance_stale(value) ==
    /\ hit_tol' = value
    /\ UNCHANGED <<points, hull, path_start, path_end, collisions, first_collision_t,
                   mode, car_t, anim_running, _last_ts, stop_on_collision, timers>>

_update_tolerance(value) ==
    /\ hit_tol' = value
    /\ collisions' = Collisions(hull, path_start, path_end, value)
    /\ first_collision_t' = FirstT(path_start, path_end, collisions')
    /\ UNCHANGED <<points, hull, path_start, path_end, mode, car_t, anim_running,
                   _last_ts, stop_on_collision, timers>>

_clear_path ==
    /\ path_start' = None
    /\ path_end' = None
    /\ collisions' = <<>>
    /\ anim_running' = FALSE
    /\ _last_ts' = None
    /\ car_t' = <<0, 1>>
    /\ first_collision_t' = None
    /\ UNCHANGED <<points, hull, hit_tol, mode, stop_on_collision, timers>>

\* _clear_all without self.hull.clear()
_clear_all_keep_hull ==
    /\ points' = <<>>
    /\ path_start' = None
    /\ path_end' = None
    /\ collisions' = <<>>
    /\ anim_running' = FALSE
    /\ _last_ts' = None
    /\ car_t' = <<0, 1>>
    /\ first_collision_t' = None
    /\ UNCHANGED <<hull, hit_tol, mode, stop_on_collision, timers>>

_clear_all ==
    /\ points' = <<>>
    /\ hull' = <<>>
    /\ path_start' = None
    /\ path_end' = None
    /\ collisions' = <<>>
    /\ anim_running' = FALSE
    /\ _last_ts' = None
    /\ car_t' = <<0, 1>>
    /\ first_collision_t' = None
    /\ UNCHANGED <<hit_tol, mode, stop_on_collision, timers>>

_pause_animation ==
    /\ anim_running' = FALSE
    /\ _last_ts' = None
    /\ UNCHANGED <<points, hull, path_start, path_end, collisions,
                   first_collision_t, hit_tol, mode, car_t, stop_on_collision, timers>>

_reset_animation ==
    /\ anim_running' = FALSE
    /\ _last_ts' = None
    /\ car_t' = <<0, 1>>
    /\ UNCHANGED <<points, hull, path_start, path_end, collisions,
                   first_collision_t, hit_tol, mode, stop_on_collision, timers>>

\* self._path_length() squared, in grid units
_path_length2(ps, pe) ==
    LET dv == _path_vector(ps, pe) IN dv[1] * dv[1] + dv[2] * dv[2]

\* TickBody without the test for the first collision
TickBody_nostop(ct, last, step, pending) ==
    LET step_t == IF last = None THEN <<0, 1>> ELSE step
        target_t == FracAdd(ct, step_t)
    IN  IF _path_length2(path_start, path_end) <= 0
        THEN /\ car_t' = ct
             /\ anim_running' = FALSE
             /\ _last_ts' = None
             /\ timers' = pending
        ELSE IF FracLe(<<1, 1>>, target_t)
        THEN /\ car_t' = <<1, 1>>
             /\ anim_running' = FALSE
             /\ _last_ts' = None
             /\ timers' = pending
        ELSE /\ car_t' = target_t
             /\ anim_running' = TRUE
             /\ _last_ts' = Stamp
             /\ timers' = pending + 1

\* _tick without the arrival branch "if self.car_t >= 1.0: ... _pause_animation()":
\* the car is clamped at the end of the path and the next callback is scheduled.
TickBody_noarrive(ct, last, step, pending) ==
    LET step_t == IF last = None THEN <<0, 1>> ELSE step
        target_t == FracAdd(ct, step_t)
    IN  IF _path_length2(path_start, path_end) <= 0
        THEN car_t' = ct /\ anim_running' = FALSE /\ _last_ts' = None
             /\ timers' = pending
        ELSE IF stop_on_collision /\ first_collision_t # None
                /\ FracLe(first_collision_t, target_t)
        THEN car_t' = first_collision_t /\ anim_running' = FALSE /\ _last_ts' = None
             /\ timers' = pending
        ELSE car_t' = (IF FracLe(<<1, 1>>, target_t) THEN <<1, 1>> ELSE target_t)
             /\ anim_running' = TRUE /\ _last_ts' = Stamp
             /\ timers' = pending + 1

\* _tick past its guard, entered with the car at ct, the timestamp last and
\* with pending callbacks still to come: dt is 0 without a timestamp, step is
\* speed * dt / L otherwise; singleShot adds one callback when the animation
\* goes on
TickBody(ct, last, step, pending) ==
    LET step_t == IF last = None THEN <<0, 1>> ELSE step
        target_t == FracAdd(ct, step_t)
    IN  IF _path_length2(path_start, path_end) <= 0
        THEN /\ car_t' = ct
             /\ anim_running' = FALSE
             /\ _last_ts' = None
             /\ timers' = pending
        ELSE IF /\ stop_on_collision
                /\ first_collision_t # None
                /\ FracLe(first_collision_t, target_t)
        THEN /\ car_t' = first_collision_t
             /\ anim_running' = FALSE
             /\ _last_ts' = None
             /\ timers' = pending
        ELSE IF FracLe(<<1, 1>>, target_t)
        THEN /\ car_t' = <<1, 1>>
             /\ anim_running' = FALSE
             /\ _last_ts' = None
             /\ timers' = pending
        ELSE /\ car_t' = target_t
             /\ anim_running' = TRUE
             /\ _last_ts' = Stamp
             /\ timers' = pending + 1

\* the Play button: nothing without a complete path; otherwise rewind a car
\* that has arrived, take a timestamp and run the first tick at once
_start_animation(step) ==
    /\ timers < MaxTimers
    /\ IF path_start = None \/ path_end = None
       THEN UNCHANGED <<car_t, anim_running, _last_ts, timers>>
       ELSE TickBody(IF FracLe(<<1, 1>>, car_t) THEN <<0, 1>> ELSE car_t,
                     Stamp, step, timers)
    /\ UNCHANGED <<points, hull, path_start, path_end, collisions,
                   first_collision_t, hit_tol, mode, stop_on_collision>>

\* a pending callback fires: it returns at once when the animation is paused
\* or the path incomplete
_tick(step) ==
    /\ timers > 0
    /\ IF ~anim_running \/ path_start = None \/ path_end = None
       THEN /\ timers' = timers - 1
            /\ UNCHANGED <<car_t, anim_running, _last_ts>>
       ELSE TickBody(car_t, _last_ts, step, timers - 1)
    /\ UNCHANGED <<points, hull, path_start, path_end, collisions,
                   first_collision_t, hit_tol, mode, stop_on_collision>>

\* Space pauses a running animation and starts a paused one, R resets
keyPressEvent(key, step) ==
    IF key = "Space"
    THEN (IF anim_running THEN _pause_animation ELSE _start_animation(step))
    ELSE _reset_animation

\* the user ticks or clears the box "Stop at first collision"
ToggleStop ==
    /\ stop_on_collision' = ~stop_on_collision
    /\ UNCHANGED <<points, hull, path_start, path_end, collisions, first_collision_t,
                   hit_tol, mode, car_t, anim_running, _last_ts, timers>>

(***************************************************************************)
(* Spec: the application under every event of its user interface.  The     *)
(* path endpoints are clicked among two points; the obstacles among three, *)
(* one of them between the two path points and one at the second; a tick   *)
(* advances the car by one of three fractions of the path.                 *)
(***************************************************************************)
AppPath == {<<-Unit, Unit \div 2>>, <<2 * Unit, Unit \div 2>>}   \* (-1, 0.5), (2, 0.5)
AppObst == {<<0, Unit \div 2>>, <<2 * Unit, Unit \div 2>>, <<Unit, Unit>>}
                                                   \* (0, 0.5), (2, 0.5), (1, 1)
AppTols == {SliderMin, SliderInit}
TickSteps == {<<0, 1>>, <<1, 6>>, <<1, 2>>}

SetMode == \E m \in {"obstacle", "start", "end"} : _set_mode(m)

Click ==
    /\ mode = "obstacle" => Len(points) < MaxAppPoints
    /\ \E pt \in (IF mode = "obstacle" THEN AppObst ELSE AppPath) : _handle_view_click(pt)

ChangeTolerance == \E value \in AppTols : _update_tolerance(value)

Play == \E step \in TickSteps : _start_animation(step)

Timeout == \E step \in TickSteps : _tick(step)

KeyPress == \E key \in {"Space", "R"} : \E step \in TickSteps : keyPressEvent(key, step)

Next ==
    \/ SetMode
    \/ Click
    \/ ChangeTolerance
    \/ _clear_path
    \/ _clear_all
    \/ Play
    \/ _pause_animation
    \/ _reset_animation
    \/ Timeout
    \/ KeyPress
    \/ ToggleStop

Spec == Init /\ [][Next]_vars

(***************************************************************************)
(* SpecHull: obstacle clicks on a grid and Clear All.                      *)
(***************************************************************************)
HullGrid == {<<Unit * i, Unit * j>> : i \in 0..HullGridW, j \in HullRows}

ClickObstacle ==
    /\ mode = "obstacle"
    /\ Len(points) < MaxPoints
    /\ \E pt \in HullGrid : _handle_view_click(pt)

NextHull == ClickObstacle \/ _clear_all

SpecHull == Init /\ [][NextHull]_vars

(***************************************************************************)
(* Properties of convex_hull, over SpecHull.                               *)
(***************************************************************************)
PointSet == Range(points)
LexMin(S) == CHOOSE p \in S : \A q \in S : p = q \/ LexLess(p, q)
LexMax(S) == CHOOSE p \in S : \A q \in S : p = q \/ LexLess(q, p)
\* all points of S on one line: the line through two distinct points of S
Collinear(S) ==
    \/ Cardinality(S) <= 2
    \/ LET a == CHOOSE p \in S : TRUE
           b == CHOOSE p \in S : p # a
       IN  \A c \in S : _cross(a, b, c) = 0
Succ(i, n) == (i % n) + 1

\* twice the signed area of the polygon h (shoelace sum up to vertex i)
RECURSIVE Shoelace(_, _)
Shoelace(h, i) ==
    IF i = 0 THEN 0
    ELSE Shoelace(h, i - 1) + _det(h[i], h[Succ(i, Len(h))])

IsRotation(s, t) ==
    /\ Len(s) = Len(t)
    /\ \/ Len(s) = 0
       \/ \E k \in 0..(Len(s) - 1) : \A i \in 1..Len(s) : s[i] = t[((i - 1 + k) % Len(s)) + 1]

UnitSquare == << <<0, 0>>, <<Unit, 0>>, <<Unit, Unit>>, <<0, Unit>> >>
ThreeInLine == {<<0, 0>>, <<Unit, 0>>, <<2 * Unit, 0>>}

\* C1: no obstacle point lies strictly outside the stored hull: with 3 or more
\* vertices every point is on or to the left of every edge, the closing edge
\* included; with 2 vertices every point is on the segment between them; with
\* fewer there is no point other than the vertex.
C1_NoPointOutside ==
    LET n == Len(hull)
        P == PointSet
    IN  /\ n >= 3 => \A i \in 1..n : \A p \in P :
                        _cross(hull[i], hull[Succ(i, n)], p) >= 0
        /\ n = 2 => \A p \in P :
                        _cross(hull[1], hull[2], p) = 0 /\ _on_segment(hull[1], hull[2], p)
        /\ n <= 1 => P \subseteq Range(hull)

C1_Witness ==
    /\ Len(hull) >= 3
    /\ \E p \in PointSet : p \notin Range(hull)
    /\ \E p \in PointSet : \A i \in 1..Len(hull) :
           _cross(hull[i], hull[Succ(i, Len(hull))], p) > 0

\* C2: when 3 or more of the obstacle points are not collinear, the hull starts
\* at the lexicographically smallest point, its vertices are obstacle points,
\* none is repeated, every three cyclically consecutive vertices turn strictly
\* left, every other vertex is strictly left of every edge, and the signed area
\* is positive; the unit square gives exactly its four corners from the origin.
C2_StrictCCW ==
    LET n == Len(hull)
        P == PointSet
    IN  /\ ~Collinear(P) =>
              /\ n >= 3
              /\ hull[1] = LexMin(P)
              /\ Range(hull) \subseteq P
              /\ Cardinality(Range(hull)) = n
              /\ \A i \in 1..n :
                    _cross(hull[i], hull[Succ(i, n)], hull[Succ(Succ(i, n), n)]) > 0
              /\ \A i \in 1..n : \A j \in 1..n \ {i, Succ(i, n)} :
                    _cross(hull[i], hull[Succ(i, n)], hull[j]) > 0
              /\ Shoelace(hull, n) > 0
        /\ P = Range(UnitSquare) => hull = UnitSquare

C2_Witness ==
    /\ PointSet = Range(UnitSquare)
    /\ points[1] # <<0, 0>>
    /\ hull = UnitSquare

\* C3: the hull of the stored hull is the stored hull again, up to the choice
\* of the first vertex.
C3_Idempotent == IsRotation(convex_hull(hull), hull)

C3_Witness ==
    /\ Len(hull) = 4
    /\ Len(points) = 4
    /\ convex_hull(hull) = hull

\* C4: no obstacle gives the empty hull, one distinct obstacle (however often
\* clicked) gives that point alone, and two or more distinct collinear
\* obstacles give the lexicographic minimum and maximum only; three points in
\* a row give the two outer ones.
C4_Degenerate ==
    LET P == PointSet
    IN  /\ points = <<>> => hull = <<>>
        /\ Cardinality(P) = 1 => hull = <<points[1]>>
        /\ (Cardinality(P) >= 2 /\ Collinear(P)) => hull = <<LexMin(P), LexMax(P)>>
        /\ P = ThreeInLine => hull = << <<0, 0>>, <<2 * Unit, 0>> >>

C4_Witness ==
    /\ PointSet = ThreeInLine
    /\ Len(points) = 4
    /\ hull = << <<0, 0>>, <<2 * Unit, 0>> >>

\* C18: the stored hull has no edge when it has fewer than 2 points, the one
\* edge from its first to its second point when it has exactly 2, and with n
\* of 3 or more points the n edges from each vertex to the next, the last one
\* closing the polygon from the last vertex to the first; every vertex then
\* starts exactly one edge and ends exactly one edge.
C18_EdgesOfHull ==
    LET e == hull_edges(hull)
        n == Len(hull)
    IN  /\ n < 2 => e = <<>>
        /\ n = 2 => e = << <<hull[1], hull[2]>> >>
        /\ n >= 3 =>
              /\ Len(e) = n
              /\ \A i \in 1..(n - 1) : e[i] = <<hull[i], hull[i + 1]>>
              /\ e[n] = <<hull[n], hull[1]>>
              /\ \A i \in 1..n :
                    /\ Cardinality({k \in 1..Len(e) : e[k][1] = hull[i]}) = 1
                    /\ Cardinality({k \in 1..Len(e) : e[k][2] = hull[i]}) = 1

C18_Witness ==
    /\ Len(hull) = 4
    /\ Len(hull_edges(hull)) = 4
    /\ hull_edges(hull)[4] = <<hull[4], hull[1]>>
    /\ hull[1] # <<0, 0>>

(***************************************************************************)
(* SpecSquare: the unit square has been clicked as the obstacles; the path *)
(* endpoints are clicked among the points of the examples, and the         *)
(* tolerance slider takes every value it allows.                           *)
(***************************************************************************)
PathA == <<-Unit, Unit \div 2>>        \* (-1, 0.5)
PathB == <<2 * Unit, Unit \div 2>>     \* (2, 0.5)
InsidePt == <<Unit \div 2, Unit \div 2>>   \* (0.5, 0.5)
OutsidePt == <<2 * Unit, 2 * Unit>>    \* (2, 2)
EdgePt == <<0, Unit \div 2>>           \* (0, 0.5)
SquarePts == {PathA, PathB, InsidePt, OutsidePt, EdgePt}

InitSquare ==
    /\ points = UnitSquare
    /\ hull = convex_hull(UnitSquare)
    /\ path_start = None
    /\ path_end = None
    /\ collisions = <<>>
    /\ first_collision_t = None
    /\ hit_tol = SliderInit
    /\ mode = "obstacle"
    /\ car_t = <<0, 1>>
    /\ anim_running = FALSE
    /\ _last_ts = None
    /\ stop_on_collision = TRUE
    /\ timers = 0

SetPathMode == \E m \in {"start", "end"} : _set_mode(m)

ClickSquarePath ==
    /\ mode \in {"start", "end"}
    /\ \E pt \in SquarePts : _handle_view_click(pt)

SlideTolerance == \E value \in SliderMin..SliderMax : _update_tolerance(value)

NextSquare == SetPathMode \/ ClickSquarePath \/ SlideTolerance \/ _clear_path

SpecSquare == InitSquare /\ [][NextSquare]_vars

OnExamplePath == path_start = PathA /\ path_end = PathB
CrossingLeft == <<0, Unit \div 2, 1>>      \* (0, 0.5)
CrossingRight == <<Unit, Unit \div 2, 1>>  \* (1, 0.5)

\* C5 as stated: on the path from (-1, 0.5) to (2, 0.5) the collision list is
\* exactly the two crossings (0, 0.5) and (1, 0.5), at every tolerance.
C5_Original ==
    OnExamplePath =>
        Len(collisions) = 2 /\ Range(collisions) = {CrossingLeft, CrossingRight}

\* C5: on the path from (-1, 0.5) to (2, 0.5) the collision list is exactly the
\* two crossings (0, 0.5) and (1, 0.5) while the tolerance is below 1.0; from
\* 1.0 on, the default 1.5 included, it holds the two path endpoints as well.
C5_TwoCrossingsBelowOne ==
    OnExamplePath =>
        IF hit_tol < 10
        THEN Len(collisions) = 2 /\ Range(collisions) = {CrossingLeft, CrossingRight}
        ELSE Len(collisions) = 4 /\
             Range(collisions) = {CrossingLeft, CrossingRight, Lift(PathA), Lift(PathB)}

C5_Witness ==
    /\ OnExamplePath
    /\ hit_tol = 9
    /\ collisions = <<CrossingRight, CrossingLeft>>

\* C6 as stated: on that path the first-collision parameter is 1/3, at every
\* tolerance.
C6_Original == OnExamplePath => first_collision_t = <<1, 3>>

\* C6: on that path the first-collision parameter is 1/3 (the crossing at
\* (0, 0.5)) while the tolerance is below 1.0; from 1.0 on, the default 1.5
\* included, it is 0, the path start being a tolerant endpoint hit.
C6_FirstAtOneThirdBelowOne ==
    OnExamplePath =>
        first_collision_t = (IF hit_tol < 10 THEN <<1, 3>> ELSE <<0, 1>>)

C6_Witness ==
    /\ OnExamplePath
    /\ hit_tol = SliderMin
    /\ first_collision_t = <<1, 3>>
    /\ Len(collisions) = 2

\* the verdict shown for a path endpoint (_pos_str)
Verdict(p) == _point_in_convex_hull(hull, p, hit_tol)

\* C10 as stated: against the unit square (0.5, 0.5) is inside, (2, 2) is
\* outside and (0, 0.5) is on the boundary, at every tolerance.
C10_Original ==
    \A p \in {path_start, path_end} :
        /\ p = InsidePt => Verdict(p) = "inside"
        /\ p = OutsidePt => Verdict(p) = "outside"
        /\ p = EdgePt => Verdict(p) = "on boundary"

\* C10: against the unit square (0.5, 0.5) is inside while the tolerance is
\* below 0.5 and on the boundary from 0.5 on; (2, 2) is outside while the
\* tolerance is at most 1.4 and on the boundary from 1.5 on; (0, 0.5) is on
\* the boundary at every tolerance.
C10_VerdictsByTolerance ==
    \A p \in {path_start, path_end} :
        /\ p = InsidePt =>
              Verdict(p) = (IF hit_tol < 5 THEN "inside" ELSE "on boundary")
        /\ p = OutsidePt =>
              Verdict(p) = (IF hit_tol < 15 THEN "outside" ELSE "on boundary")
        /\ p = EdgePt => Verdict(p) = "on boundary"

C10_Witness ==
    /\ path_start = InsidePt
    /\ path_end = OutsidePt
    /\ hit_tol = 4
    /\ Verdict(path_start) = "inside"
    /\ Verdict(path_end) = "outside"

(***************************************************************************)
(* SpecColl: some obstacles on the corners of the pixel lattice have been  *)
(* clicked; the path endpoints are clicked on a half-pixel grid and the    *)
(* tolerance slider is moved.                                              *)
(***************************************************************************)
ObstGrid == {<<Unit * i, Unit * j>> : i \in 0..1, j \in 0..1}
ObstLists == {SortSet(S) : S \in {T \in SUBSET ObstGrid : Cardinality(T) <= MaxObst}}
PathGrid == (0..PathGridN) \X (0..PathGridN)
TolValues == {TolStep * k : k \in 0..TolCount} \cap (SliderMin..SliderMax)

InitColl ==
    /\ points \in ObstLists
    /\ hull = convex_hull(points)
    /\ path_start = None
    /\ path_end = None
    /\ collisions = <<>>
    /\ first_collision_t = None
    /\ hit_tol = SliderInit
    /\ mode = "obstacle"
    /\ car_t = <<0, 1>>
    /\ anim_running = FALSE
    /\ _last_ts = None
    /\ stop_on_collision = TRUE
    /\ timers = 0

ClickCollPath ==
    /\ mode \in {"start", "end"}
    /\ \E pt \in PathGrid : _handle_view_click(pt)

StepTolerance == \E value \in TolValues : _update_tolerance(value)

NextColl == SetPathMode \/ ClickCollPath \/ StepTolerance \/ _clear_path

SpecColl == InitColl /\ [][NextColl]_vars

PathComplete == path_start # None /\ path_end # None

\* C7: a step that raises (or keeps) the tolerance and leaves the hull and the
\* complete path alone never shortens the collision list.
C7_ToleranceMonotone ==
    [][(/\ PathComplete
        /\ hit_tol' >= hit_tol
        /\ hull' = hull /\ path_start' = path_start /\ path_end' = path_end)
       => Len(collisions') >= Len(collisions)]_vars

C7_Witness ==
    /\ PathComplete
    /\ hit_tol \in TolValues
    /\ Len(collisions) > Len(Collisions(hull, path_start, path_end, SliderMin))
    /\ Len(collisions) < Len(Collisions(hull, path_start, path_end, SliderInit))

\* h = <<xn, yn, d>> lies on the closed segment from a to b
OnSegmentExact(a, b, h) ==
    LET ux == h[1] - a[1] * h[3]
        uy == h[2] - a[2] * h[3]
        abx == b[1] - a[1]
        aby == b[2] - a[2]
        dot == ux * abx + uy * aby
    IN  /\ abx * uy - aby * ux = 0
        /\ 0 <= dot
        /\ dot <= (abx * abx + aby * aby) * h[3]
        /\ a = b => (ux = 0 /\ uy = 0)

\* the distance from h = <<xn, yn, d>> to the closed segment from a to b is at
\* most tol tenths of a pixel: to the foot of the perpendicular when that falls
\* on the segment, to the nearer end otherwise
NearSegment(a, b, h, tol) ==
    LET d == h[3]
        ux == h[1] - a[1] * d
        uy == h[2] - a[2] * d
        vx == h[1] - b[1] * d
        vy == h[2] - b[2] * d
        abx == b[1] - a[1]
        aby == b[2] - a[2]
        ab2 == abx * abx + aby * aby
        dot == ux * abx + uy * aby
        c == abx * uy - aby * ux
        lim == (tol * Unit * d) * (tol * Unit * d)
    IN  IF dot <= 0 THEN 100 * (ux * ux + uy * uy) <= lim
        ELSE IF dot >= ab2 * d THEN 100 * (vx * vx + vy * vy) <= lim
        ELSE 100 * c * c <= lim * ab2

NearHull(h, tol) ==
    \E i \in 1..Len(hull_edges(hull)) :
        NearSegment(hull_edges(hull)[i][1], hull_edges(hull)[i][2], h, tol)

OnHull(h) ==
    \E i \in 1..Len(hull_edges(hull)) :
        OnSegmentExact(hull_edges(hull)[i][1], hull_edges(hull)[i][2], h)

\* the parameter t = ((h - start) . d) / (d . d) of a hit h, d = end - start
ParamOf(h) ==
    LET dx == path_end[1] - path_start[1]
        dy == path_end[2] - path_start[2]
    IN  Frac((h[1] - path_start[1] * h[3]) * dx + (h[2] - path_start[2] * h[3]) * dy,
             h[3] * (dx * dx + dy * dy))

PathLen2 ==
    (path_end[1] - path_start[1]) * (path_end[1] - path_start[1])
    + (path_end[2] - path_start[2]) * (path_end[2] - path_start[2])

InUnit(t) == 0 <= t[1] /\ t[1] <= t[2]

\* C8: every entry of the collision list lies on the path segment, with its
\* parameter within [0, 1] when the path has a length, and within the tolerance
\* of some hull edge; it is a point of a hull edge, or else one of the two path
\* endpoints, with parameter exactly 0 or 1.
C8_CollisionsOnPathNearHull ==
    \A k \in 1..Len(collisions) :
        LET h == collisions[k]
        IN  /\ PathComplete
            /\ OnSegmentExact(path_start, path_end, h)
            /\ PathLen2 > 0 => InUnit(ParamOf(h))
            /\ NearHull(h, hit_tol)
            /\ \/ OnHull(h)
               \/ /\ h \in {Lift(path_start), Lift(path_end)}
                  /\ PathLen2 > 0 => ParamOf(h) \in {<<0, 1>>, <<1, 1>>}

C8_Witness ==
    /\ PathComplete
    /\ Len(collisions) >= 3
    /\ \E k \in 1..Len(collisions) : collisions[k][3] > 1
    /\ \E k \in 1..Len(collisions) : ~OnHull(collisions[k])

\* the path meets the hull edges that start at vertices i and j in one point
SharedHit(i, j) ==
    LET e == hull_edges(hull)
        path_segment == <<path_start, path_end>>
    IN  /\ i # j
        /\ intersection_point(path_segment, e[i]) # None
        /\ intersection_point(path_segment, e[i]) = intersection_point(path_segment, e[j])

\* C12: no two entries of the collision list count as the same collision
\* point: for entries at two different positions it is never the case that
\* both coordinates differ by less than 1e-6; in particular no point is listed
\* twice.
C12_NoDuplicateHits ==
    \A i \in 1..Len(collisions) : \A j \in 1..Len(collisions) :
        i # j => (~SamePoint(collisions[i], collisions[j]) /\ collisions[i] # collisions[j])

C12_Witness ==
    /\ PathComplete
    /\ Len(hull) >= 3
    /\ \E i \in 1..Len(hull) : \E j \in 1..Len(hull) : SharedHit(i, j)
    /\ \E k \in 1..Len(collisions) : collisions[k] \in {Lift(path_start), Lift(path_end)}
    /\ Len(collisions) >= 2

(***************************************************************************)
(* SpecFirstT: _compute_first_collision_t as a function of the path and of *)
(* its argument hits.  The argument is held in collisions (its only caller *)
(* passes self.collisions) and grows by one hit at a time; every step      *)
(* applies the function to the new list.                                   *)
(***************************************************************************)
FirstEnds == {None, <<1, 1>>, <<2, 1>>, <<2, 2>>}
HitPoints == {RPoint(xn, yn, d) : xn \in 0..HitGridN, yn \in 0..HitGridN, d \in 1..2}

InitFirstT ==
    /\ points = <<>>
    /\ hull = <<>>
    /\ path_start \in FirstEnds
    /\ path_end \in FirstEnds
    /\ collisions = <<>>
    /\ first_collision_t = _compute_first_collision_t(path_start, path_end, <<>>)
    /\ hit_tol = SliderInit
    /\ mode = "obstacle"
    /\ car_t = <<0, 1>>
    /\ anim_running = FALSE
    /\ _last_ts = None
    /\ stop_on_collision = TRUE
    /\ timers = 0

CallFirstT ==
    /\ Len(collisions) < MaxHits
    /\ \E h \in HitPoints :
          /\ collisions' = Append(collisions, h)
          /\ first_collision_t' = _compute_first_collision_t(path_start, path_end, collisions')
    /\ UNCHANGED <<points, hull, path_start, path_end, hit_tol, mode, car_t, anim_running,
                   _last_ts, stop_on_collision, timers>>

NextFirstT == CallFirstT

SpecFirstT == InitFirstT /\ [][NextFirstT]_vars

\* the parameters of the hits that lie within [0, 1]
ParamsInRange == {t \in {ParamOf(collisions[k]) : k \in 1..Len(collisions)} : InUnit(t)}

\* C9: the first-collision parameter is None when a path endpoint is unset,
\* the hit list is empty, the path has zero length or no hit has its parameter
\* within [0, 1]; otherwise it is the least of the parameters within [0, 1],
\* and so lies within [0, 1] itself.
C9_FirstIsMinimum ==
    IF ~PathComplete \/ collisions = <<>> \/ PathLen2 = 0 THEN first_collision_t = None
    ELSE IF ParamsInRange = {} THEN first_collision_t = None
    ELSE /\ first_collision_t \in ParamsInRange
         /\ \A t \in ParamsInRange : FracLe(first_collision_t, t)
         /\ InUnit(first_collision_t)

C9_Witness ==
    /\ PathComplete
    /\ PathLen2 > 0
    /\ Len(collisions) = 2
    /\ first_collision_t # None
    /\ first_collision_t = ParamOf(collisions[2])
    /\ first_collision_t[2] > 1
    /\ InUnit(ParamOf(collisions[1]))
    /\ FracLt(first_collision_t, ParamOf(collisions[1]))

(***************************************************************************)
(* SpecVerdict: three or four obstacles on a lattice of whole pixels have  *)
(* been clicked; the path start is clicked on a half-pixel grid around     *)
(* them and the tolerance slider is moved.  The verdict is the one         *)
(* _refresh_info shows for the path start.                                 *)
(***************************************************************************)
VerdictObst == {<<Unit * i, Unit * j>> : i \in 0..2, j \in 0..1}
VerdictLists == {SortSet(S) : S \in {T \in SUBSET VerdictObst : Cardinality(T) \in {3, 4}}}
VerdictPts == (-VerdictPad..(2 * Unit + VerdictPad)) \X (-VerdictPad..(Unit + VerdictPad))
VerdictTols == {VerdictTolStep * k : k \in 0..SliderMax} \cap (SliderMin..SliderMax)

InitVerdict ==
    /\ points \in VerdictLists
    /\ hull = convex_hull(points)
    /\ path_start = None
    /\ path_end = None
    /\ collisions = <<>>
    /\ first_collision_t = None
    /\ hit_tol = SliderInit
    /\ mode = "obstacle"
    /\ car_t = <<0, 1>>
    /\ anim_running = FALSE
    /\ _last_ts = None
    /\ stop_on_collision = TRUE
    /\ timers = 0

SetStartMode == _set_mode("start")

ClickVerdictStart ==
    /\ mode = "start"
    /\ \E pt \in VerdictPts : _handle_view_click(pt)

StepVerdictTol == \E value \in VerdictTols : _update_tolerance(value)

NextVerdict == SetStartMode \/ ClickVerdictStart \/ StepVerdictTol

SpecVerdict == InitVerdict /\ [][NextVerdict]_vars

Rotate(h, k) == [i \in 1..Len(h) |-> h[((i - 1 + k) % Len(h)) + 1]]

\* p is within max(eps, tolerance) of the hull edge that starts at vertex i
NearEdge(i, p) ==
    NearSegment(hull[i], hull[Succ(i, Len(hull))], Lift(p), Max(EPS, hit_tol))

\* p is strictly on the outer side of the hull edge that starts at vertex i
BeyondEdge(i, p) == _cross(hull[i], hull[Succ(i, Len(hull))], p) < -EPS

OutsideVia(p) == \E i \in 1..Len(hull) : ~NearEdge(i, p) /\ BeyondEdge(i, p)
NearSomeEdge(p) == \E i \in 1..Len(hull) : NearEdge(i, p)

\* C11: against a hull of 3 or more vertices the verdict for the path start p
\* is outside exactly when some edge is farther than max(eps, tolerance) from
\* p and has p strictly on its outer side; failing that it is on boundary
\* exactly when p is within max(eps, tolerance) of some edge, and inside
\* otherwise.  The verdict is the same from whichever vertex the hull list
\* starts, and it is never inside for a point near one edge and strictly
\* beyond another.
C11_VerdictByEdges ==
    (Len(hull) >= 3 /\ path_start # None) =>
        LET p == path_start
            v == Verdict(p)
        IN  /\ v \in {"outside", "on boundary", "inside"}
            /\ v = "outside" <=> OutsideVia(p)
            /\ v = "on boundary" <=> (~OutsideVia(p) /\ NearSomeEdge(p))
            /\ v = "inside" <=> (~OutsideVia(p) /\ ~NearSomeEdge(p))
            /\ \A k \in 1..(Len(hull) - 1) :
                   _point_in_convex_hull(Rotate(hull, k), p, hit_tol) = v
            /\ (NearSomeEdge(p) /\ \E i \in 1..Len(hull) : BeyondEdge(i, p)) => v # "inside"

C11_Witness ==
    /\ Len(hull) >= 3
    /\ path_start # None
    /\ \E i \in 1..Len(hull) : \E j \in 1..Len(hull) :
          /\ NearEdge(i, path_start) /\ BeyondEdge(i, path_start)
          /\ ~NearEdge(j, path_start) /\ BeyondEdge(j, path_start)
          /\ i < j
    /\ Verdict(path_start) = "outside"

(***************************************************************************)
(* SpecSeg: segments_intersect and intersection_point as functions of two  *)
(* segments with ends on a lattice of whole pixels.  The first segment is  *)
(* the path; the second is handed over as the one edge of a two-point hull *)
(* list, in either direction and of any length, zero included; the step    *)
(* applies intersection_point to the pair and keeps what it returns in     *)
(* collisions, as the first loop of _update_collisions does.  A behaviour   *)
(* is one call.                                                            *)
(***************************************************************************)
SegGrid == {<<Unit * i, Unit * j>> : i \in 0..SegGridW, j \in SegRows}

InitSeg ==
    /\ points = <<>>
    /\ hull = <<>>
    /\ path_start \in SegGrid
    /\ path_end \in SegGrid
    /\ collisions = <<>>
    /\ first_collision_t = None
    /\ hit_tol = SliderInit
    /\ mode = "obstacle"
    /\ car_t = <<0, 1>>
    /\ anim_running = FALSE
    /\ _last_ts = None
    /\ stop_on_collision = TRUE
    /\ timers = 0

CallIntersection ==
    /\ hull = <<>>
    /\ \E q1 \in SegGrid : \E q2 \in SegGrid :
          LET pt == intersection_point(<<path_start, path_end>>, <<q1, q2>>)
          IN  /\ hull' = <<q1, q2>>
              /\ collisions' = IF pt # None THEN <<pt>> ELSE <<>>
    /\ UNCHANGED <<points, path_start, path_end, first_collision_t, hit_tol, mode,
                   car_t, anim_running, _last_ts, stop_on_collision, timers>>

NextSeg == CallIntersection

SpecSeg == InitSeg /\ [][NextSeg]_vars

S1 == <<path_start, path_end>>
S2 == <<hull[1], hull[2]>>
Called == Len(hull) = 2

\* the point s[1] + (k / d) * (s[2] - s[1])
PointAt(s, k, d) ==
    RPoint(s[1][1] * d + k * (s[2][1] - s[1][1]), s[1][2] * d + k * (s[2][2] - s[1][2]), d)

\* the cross product of the directions of two segments: 0 when they are
\* parallel or one of them has no length
DirCross(s, t) ==
    (s[2][1] - s[1][1]) * (t[2][2] - t[1][2]) - (s[2][2] - s[1][2]) * (t[2][1] - t[1][1])

\* the points of s that can lie on t: the ends of both segments and, for
\* directions that cross, the points of s at the multiples of 1 / |DirCross|
\* (the crossing point of two lines through lattice points is one of them)
CommonPoints(s, t) ==
    LET D == Abs(DirCross(s, t))
        cand == {Lift(s[1]), Lift(s[2]), Lift(t[1]), Lift(t[2])}
                \cup (IF D = 0 THEN {} ELSE {PointAt(s, k, D) : k \in 0..D})
    IN  {x \in cand : OnSegmentExact(s[1], s[2], x) /\ OnSegmentExact(t[1], t[2], x)}

Degenerate(s) == s[1] = s[2]

\* C13: segments_intersect is true exactly when the two closed segments have
\* a point in common, whether they cross, touch at an end, overlap on one line
\* or have no length.
C13_IntersectIffCommonPoint ==
    Called => (segments_intersect(S1, S2) <=> CommonPoints(S1, S2) # {})

C13_Witness ==
    /\ Called
    /\ ~Degenerate(S1) /\ ~Degenerate(S2)
    /\ _cross(S1[1], S1[2], S2[1]) = 0 /\ _cross(S1[1], S1[2], S2[2]) = 0
    /\ {S1[1], S1[2]} \cap {S2[1], S2[2]} = {}
    /\ segments_intersect(S1, S2)
    /\ Cardinality(CommonPoints(S1, S2)) >= 2

\* C14: a point returned by intersection_point lies on both segments; when
\* the directions of the segments cross it is their only common point, and
\* ((0,0),(2,2)) with ((0,2),(2,0)) gives (1,1); an end returned for parallel
\* or collinear segments is a point of both segments as well.
C14_ReturnedPointIsCommon ==
    /\ (Called /\ collisions # <<>>) =>
          /\ collisions[1] \in CommonPoints(S1, S2)
          /\ DirCross(S1, S2) # 0 => CommonPoints(S1, S2) = {collisions[1]}
    /\ (Called /\ S1 = << <<0, 0>>, <<2 * Unit, 2 * Unit>> >>
               /\ S2 = << <<0, 2 * Unit>>, <<2 * Unit, 0>> >>)
          => collisions = << <<Unit, Unit, 1>> >>

C14_Witness ==
    /\ Called
    /\ collisions # <<>>
    /\ DirCross(S1, S2) = 0
    /\ ~Degenerate(S1) /\ ~Degenerate(S2)
    /\ S1[1][1] # S1[2][1] /\ S1[1][2] # S1[2][2]
    /\ ~OnSegmentExact(S2[1], S2[2], Lift(S1[1]))
    /\ collisions = <<Lift(S1[2])>>

\* C15: intersection_point returns None exactly when segments_intersect is
\* false: no point for ((0,0),(1,0)) with ((0,1),(1,1)), and a point for every
\* pair of segments that segments_intersect accepts.
C15_NoneIffDisjoint ==
    /\ Called => (collisions = <<>> <=> ~segments_intersect(S1, S2))
    /\ (Called /\ S1 = << <<0, 0>>, <<Unit, 0>> >> /\ S2 = << <<0, Unit>>, <<Unit, Unit>> >>)
          => collisions = <<>>

C15_Witness ==
    /\ Called
    /\ DirCross(S1, S2) # 0
    /\ segments_intersect(S1, S2)
    /\ collisions = <<Lift(S2[2])>>
    /\ S2[2] \notin {S1[1], S1[2]}

(***************************************************************************)
(* Properties of the application under every event, over Spec.             *)
(***************************************************************************)
\* C16: after every event the stored hull is convex_hull of the stored
\* obstacle points; the two change only by a click in obstacle mode, which
\* appends the point and rebuilds the hull, and by Clear All, which empties
\* both.
C16_HullOfPoints ==
    /\ [](hull = convex_hull(points))
    /\ [][(points' # points \/ hull' # hull) =>
            \/ /\ mode = "obstacle"
               /\ \E pt \in AppObst : points' = Append(points, pt)
               /\ hull' = convex_hull(points')
            \/ /\ points' = <<>>
               /\ hull' = <<>>
               /\ path_start' = None /\ path_end' = None]_vars

C16_Witness ==
    /\ Len(points) = MaxAppPoints
    /\ Len(hull) = 3
    /\ points # hull
    /\ anim_running
    /\ FracLt(<<0, 1>>, car_t)
    /\ hit_tol # SliderInit

\* C17: after every event the stored collision list and first-collision
\* parameter are what _update_collisions computes from the stored hull, path
\* endpoints and tolerance; with a path endpoint unset the list is empty and
\* the parameter None.
C17_CollisionsUpToDate ==
    /\ collisions = Collisions(hull, path_start, path_end, hit_tol)
    /\ first_collision_t =
          (IF PathComplete THEN _compute_first_collision_t(path_start, path_end, collisions)
                           ELSE None)
    /\ ~PathComplete => (collisions = <<>> /\ first_collision_t = None)

C17_Witness ==
    /\ PathComplete
    /\ Len(hull) = 3
    /\ hit_tol = SliderMin
    /\ Len(collisions) = 2
    /\ first_collision_t = <<1, 3>>
    /\ car_t = <<1, 6>>
    /\ anim_running

\* C19: with fewer than 2 distinct obstacle points the hull has at most one
\* vertex, the collision list is empty and the first-collision parameter is
\* None, whatever the path and the tolerance: also when the one obstacle lies
\* on the path or is a path endpoint.
C19_NoEdgesNoCollision ==
    Cardinality(PointSet) < 2 =>
        /\ Len(hull) = Cardinality(PointSet)
        /\ collisions = <<>>
        /\ first_collision_t = None

C19_Witness ==
    /\ Len(hull) = 1
    /\ PathComplete
    /\ PathLen2 > 0
    /\ OnSegmentExact(path_start, path_end, Lift(hull[1]))
    /\ hull[1] \notin {path_start, path_end}
    /\ hit_tol = SliderInit
    /\ collisions = <<>>

\* the car parameter with which _start_animation enters its first tick
Rewound == IF FracLe(<<1, 1>>, car_t) THEN <<0, 1>> ELSE car_t

\* C20: a tick that runs (the animation running, the path complete) with
\* "Stop at first collision" ticked and a first collision known leaves the car
\* at or before the first collision; when its target reaches or passes the
\* first collision it puts the car exactly there, pauses the animation and
\* schedules no callback.  This holds for the tick of a pending callback and
\* for the tick that _start_animation runs itself.
C20_TickStopsAtFirstCollision ==
    [][\A step \in TickSteps :
        /\ (/\ anim_running /\ PathComplete
            /\ stop_on_collision /\ first_collision_t # None
            /\ _tick(step)) =>
              /\ FracLe(car_t', first_collision_t)
              /\ FracLe(first_collision_t, FracAdd(car_t, step)) =>
                    /\ car_t' = first_collision_t
                    /\ ~anim_running'
                    /\ timers' = timers - 1
              /\ FracLt(FracAdd(car_t, step), first_collision_t) =>
                    car_t' = FracAdd(car_t, step)
        /\ (/\ PathComplete
            /\ stop_on_collision /\ first_collision_t # None
            /\ _start_animation(step)) =>
              /\ FracLe(car_t', first_collision_t)
              /\ FracLe(first_collision_t, FracAdd(Rewound, step)) =>
                    /\ car_t' = first_collision_t
                    /\ ~anim_running'
                    /\ timers' = timers
              /\ FracLt(FracAdd(Rewound, step), first_collision_t) =>
                    car_t' = FracAdd(Rewound, step)]_vars

C20_Witness ==
    /\ PathComplete
    /\ stop_on_collision
    /\ first_collision_t = <<1, 3>>
    /\ car_t = first_collision_t
    /\ ~anim_running
    /\ _last_ts = None
    /\ timers = 0

\* ---------------------------------------------------------------------------
\* A run of the animation left alone: SpecRun.
\* The scene is prepared (obstacles, a complete path, tolerance, the
\* stop-at-first-collision box, a car position left by an earlier run (the car
\* never leaves 0 on a path of length zero), possibly a callback still pending
\* from an earlier pause); Play is pressed on the
\* stopped animation and from then on only the timer callbacks run, each
\* observing a positive elapsed time.  Qt's event loop fires every pending
\* QTimer.singleShot callback, which is the weak fairness of RunTimeout.
\* ---------------------------------------------------------------------------
RunObst == {<<>>, <<<<0, Unit \div 2>>, <<2 * Unit, Unit \div 2>>, <<Unit, Unit>>>>}

RunStarts == {<<0, 1>>, <<1, 3>>}

RunSteps == TickSteps \ {<<0, 1>>}

InitRun ==
    /\ points \in RunObst
    /\ hull = convex_hull(points)
    /\ path_start \in AppPath
    /\ path_end \in AppPath
    /\ hit_tol \in AppTols
    /\ collisions = Collisions(hull, path_start, path_end, hit_tol)
    /\ first_collision_t = FirstT(path_start, path_end, collisions)
    /\ mode = "end"
    /\ car_t \in (IF path_start = path_end THEN {<<0, 1>>} ELSE RunStarts)
    /\ anim_running = FALSE
    /\ _last_ts = None
    /\ stop_on_collision \in BOOLEAN
    /\ timers \in {0, 1}

RunPlay == ~anim_running /\ Play

RunTimeout == \E step \in RunSteps : _tick(step)

NextRun == RunPlay \/ RunTimeout

SpecRun == InitRun /\ [][NextRun]_vars /\ WF_vars(RunTimeout)

\* Where a run that is left alone ends: at the first collision when the box is
\* ticked and there is one, else at the end of the path.
RunGoal ==
    IF stop_on_collision /\ first_collision_t # None
    THEN first_collision_t ELSE <<1, 1>>

Stopped == ~anim_running /\ car_t = RunGoal

Running == anim_running /\ PathComplete /\ PathLen2 > 0

\* C21: on a complete path of positive length, once the animation is started
\* and only timer callbacks with a positive elapsed time follow, the animation
\* eventually stops, with anim_running false and car_t at 1.0, or at
\* first_collision_t when the box is ticked and a first collision exists (a
\* running animation leads to that stop, and a start or a tick that leaves the
\* animation stopped leaves it there); all along car_t is within [0,1] and
\* anim_running holds only while both endpoints are set.
C21_RunStops ==
    /\ [](InUnit(car_t) /\ (anim_running => PathComplete))
    /\ [][\A step \in TickSteps :
            (/\ PathComplete /\ PathLen2 > 0
             /\ \/ ~anim_running /\ _start_animation(step)
                \/ anim_running /\ _tick(step)
             /\ ~anim_running') => car_t' = RunGoal]_vars
    /\ Running ~> Stopped

C21_Witness ==
    /\ PathComplete /\ PathLen2 > 0
    /\ first_collision_t = <<1, 3>>
    /\ ~stop_on_collision
    /\ ~anim_running
    /\ car_t = <<1, 1>>
    /\ timers = 0

====
